---- MODULE Spec2Model ----
(***************************************************************************)
(* Entrata -> Webflow CMS sync worker (src/src/index.ts).                  *)
(*                                                                         *)
(* The worker is one thread of control that is suspended at every network  *)
(* call.  The model has one action per stretch of code between two         *)
(* suspension points; `log` is the trace of what the worker puts on the    *)
(* wire (upstream fetches, destination POSTs), what comes back, and the    *)
(* timers it waits for.  Invocations share no state, so they are taken    *)
(* one at a time; an invocation starts from a fresh trace.                 *)
(*                                                                         *)
(* Three specifications: Spec is the worker against services that answer   *)
(* anything; SpecNormalize is the normalizer applied to one source record; *)
(* SpecRuns is a bounded number of runs against unchanged upstream data,   *)
(* with the content of the destination followed in `created`.              *)
(*                                                                         *)
(* Assumed of the two external services: every request is answered (the    *)
(* promise of fetch() resolves), a success response carries a JSON body,   *)
(* and the destination's is a JSON object (response.json() and             *)
(* result.items would throw otherwise).                                    *)
(***************************************************************************)
EXTENDS Integers, Sequences, FiniteSets, TLC

VARIABLES
    PROPERTIES,    \* env.PROPERTIES, the configuration string
    pc,            \* where the thread of control stands
    trigger,       \* which handler started the current invocation
    request,       \* the HTTP request handed to the fetch handler
    httpResponse,  \* the Response the fetch handler returned
    promise,       \* state of the promise syncAllProperties(env) returned
    error,         \* the error that promise was rejected with
    properties,    \* what the for-of of syncAllProperties iterates over
    idx,           \* position of that for-of (1-based)
    data,          \* body of the last upstream success response
    unitTypes,     \* what fetchEntrataUnitTypes returned
    items,         \* webflowItems of the property being synced
    i,             \* loop variable of syncToWebflow
    log,           \* trace of requests, responses and delays of this invocation
    created,       \* the destination: the items it created, with their collection
    runs           \* the invocations so far: what `created` held at the start, the outcome

vars == <<PROPERTIES, pc, trigger, request, httpResponse, promise, error,
          properties, idx, data, unitTypes, items, i, log, created, runs>>

----------------------------------------------------------------------------
(* Bounds of the model *)

\* longest configuration array / configuration string
MaxProps == 2
\* most records one upstream response carries
MaxItems == 201
\* most invocations SpecRuns follows the destination over
MaxRuns == 2

\* const batchSize = 100
batchSize == 100

\* const isElite = pricePerBed >= 900
eliteThreshold == 900

Min(a, b) == IF a < b THEN a ELSE b

----------------------------------------------------------------------------
(* JSON values.  Every value is a record of one shape so that values of    *)
(* different kinds can be compared: t is the kind, s the scalar (number,   *)
(* boolean as 0/1), k the characters of a string or the keys of an object  *)
(* in insertion order, a the elements of an array or the values of an      *)
(* object.                                                                 *)

JUndefined == [t |-> "undefined", s |-> 0, k |-> <<>>, a |-> <<>>]
JNull == [t |-> "null", s |-> 0, k |-> <<>>, a |-> <<>>]
JNum(n) == [t |-> "number", s |-> n, k |-> <<>>, a |-> <<>>]
JBool(b) == [t |-> "boolean", s |-> IF b THEN 1 ELSE 0, k |-> <<>>, a |-> <<>>]
JStr(chars) == [t |-> "string", s |-> 0, k |-> chars, a |-> <<>>]
JArr(elems) == [t |-> "array", s |-> 0, k |-> <<>>, a |-> elems]
JObj(keys, vals) == [t |-> "object", s |-> 0, k |-> keys, a |-> vals]

\* Array.isArray(v)
IsArray(v) == v.t = "array"

\* typeof v === 'object' (true of null, arrays and objects)
TypeofObject(v) == v.t \in {"null", "array", "object"}

\* JavaScript truthiness, as || and && and if() see a value
Truthy(v) ==
    CASE v.t \in {"undefined", "null"} -> FALSE
      [] v.t = "number" -> v.s # 0
      [] v.t = "boolean" -> v.s = 1
      [] v.t = "string" -> Len(v.k) > 0
      [] OTHER -> TRUE

\* a || b
Or(a, b) == IF Truthy(a) THEN a ELSE b

\* v[key] of a value that is neither null nor undefined
Get(v, key) ==
    IF v.t = "object" /\ \E j \in 1..Len(v.k) : v.k[j] = key
    THEN v.a[CHOOSE j \in 1..Len(v.k) : v.k[j] = key]
    ELSE JUndefined

\* v?.key
OptGet(v, key) == IF v.t \in {"undefined", "null"} THEN JUndefined ELSE Get(v, key)

----------------------------------------------------------------------------
(* Errors.  An Error is its name and the parts of its message. *)

NoError == [name |-> "", message |-> "", status |-> 0, statusText |-> "", text |-> ""]
SyntaxError(msg) == [name |-> "SyntaxError", message |-> msg, status |-> 0, statusText |-> "", text |-> ""]
TypeError(msg) == [name |-> "TypeError", message |-> msg, status |-> 0, statusText |-> "", text |-> ""]

\* an upstream error that leaves the response body out
EntrataError_noBody(response) ==
    [name |-> "Error", message |-> "Entrata API failed", status |-> response.status,
     statusText |-> response.statusText, text |-> ""]

\* new Error(`Entrata API failed: ${response.status} ${response.statusText} - ${errorText}`)
EntrataError(response) ==
    [name |-> "Error", message |-> "Entrata API failed", status |-> response.status,
     statusText |-> response.statusText, text |-> response.text]

\* a destination error that leaves the status out
WebflowError_noStatus(response) ==
    [name |-> "Error", message |-> "Webflow API failed", status |-> 0,
     statusText |-> "", text |-> response.text]

\* new Error(`Webflow API failed: ${response.status} - ${errorText}`)
WebflowError(response) ==
    [name |-> "Error", message |-> "Webflow API failed", status |-> response.status,
     statusText |-> "", text |-> response.text]

----------------------------------------------------------------------------
(* The configuration string env.PROPERTIES, given by what JSON.parse makes *)
(* of it: valid is FALSE for a string that is not JSON.                    *)

\* interface PropertyConfig (webflowSiteId and name are only logged)
PropertyConfig(entrataPropertyId, webflowCollectionId) ==
    JObj(<<"entrataPropertyId", "webflowCollectionId">>,
         <<JStr(entrataPropertyId), JStr(webflowCollectionId)>>)

PropertyConfigs ==
    {PropertyConfig(<<"p", "1">>, <<"c", "1">>), PropertyConfig(<<"p", "2">>, <<"c", "2">>)}

\* all sequences over S of length at most n
SeqsUpTo(S, n) == UNION {[1..m -> S] : m \in 0..n}

ConfigStrings ==
    {[valid |-> FALSE, value |-> JUndefined]}
    \cup {[valid |-> TRUE, value |-> v] :
            v \in {JNull, JNum(7), JBool(TRUE), JObj(<<>>, <<>>),
                   JObj(<<"entrataPropertyId">>, <<JStr(<<"p", "1">>)>>)}
                  \cup {JStr(<<>>), JStr(<<"x">>), JStr(<<"x", "x">>)}
                  \cup {JArr(cfgs) : cfgs \in SeqsUpTo(PropertyConfigs, MaxProps)}}

\* an iteration from the last element to the first
Iterate_reversed(v) ==
    IF v.t = "array" THEN [j \in 1..Len(v.a) |-> v.a[Len(v.a) + 1 - j]]
    ELSE [j \in 1..Len(v.k) |-> JStr(<<v.k[j]>>)]

\* for (const property of properties): what the iteration yields, for the
\* values that are iterable (an array's elements, a string's characters)
Iterable(v) == v.t \in {"array", "string"}
Iterate(v) == IF v.t = "array" THEN v.a ELSE [j \in 1..Len(v.k) |-> JStr(<<v.k[j]>>)]

----------------------------------------------------------------------------
(* What the two services answer. *)

\* a test that takes every status below 500 for a success
ok_below500(response) == response.status < 500

\* response.ok
ok(response) == response.status >= 200 /\ response.status <= 299

Response(status, statusText, text, body) ==
    [status |-> status, statusText |-> statusText, text |-> text, body |-> body]

FailureResponses ==
    {Response(404, "Not Found", "not found", JUndefined),
     Response(500, "Internal Server Error", "boom", JUndefined)}

\* n source records, told apart by their identifier
Records(n) == [j \in 1..n |-> JObj(<<"UnitTypeId">>, <<JNum(j)>>)]

\* {response: {result: result}}
Wrap(result) == JObj(<<"response">>, <<JObj(<<"result">>, <<result>>)>>)

ItemCounts == {0, 1, batchSize, batchSize + 1, MaxItems}

EntrataBodies ==
    {Wrap(JObj(<<"UnitTypes">>, <<JArr(Records(n))>>)) : n \in ItemCounts}
    \cup {Wrap(JArr(Records(1))),
          Wrap(JObj(<<"FloorPlans">>, <<JArr(Records(1))>>)),
          Wrap(JObj(<<"FloorPlans">>, <<JArr(<<>>)>>)),
          Wrap(JObj(<<"unitTypes">>, <<JObj(<<"unitType">>, <<JArr(Records(1))>>)>>)),
          Wrap(JObj(<<"Empty", "Units">>, <<JArr(<<>>), JArr(Records(1))>>)),
          Wrap(JObj(<<>>, <<>>)),
          Wrap(Records(1)[1]),
          Wrap(JNull),
          Wrap(JNum(3)),
          JObj(<<"response">>, <<JObj(<<>>, <<>>)>>),
          JObj(<<>>, <<>>)}

EntrataResponses ==
    FailureResponses \cup {Response(200, "OK", "", b) : b \in EntrataBodies}

WebflowResponses ==
    FailureResponses \cup {Response(202, "Accepted", "", JObj(<<"items">>, <<JArr(<<>>)>>))}

----------------------------------------------------------------------------
(* The pure functions of the pipeline. *)

\* data.response?.result
Result(d) == OptGet(Get(d, "response"), "result")

\* the paths fetchEntrataUnitTypes tries, in its order
Candidates(result) ==
    <<OptGet(result, "UnitTypes"),
      OptGet(result, "unitTypes"),
      OptGet(result, "PropertyUnitTypes"),
      OptGet(OptGet(OptGet(result, "PhysicalProperty"), "Property"), "UnitType"),
      result>>

\* a || b || ... || last
RECURSIVE OrChain(_, _)
OrChain(vals, last) == IF vals = <<>> THEN last ELSE Or(Head(vals), OrChain(Tail(vals), last))

\* the unwrapping of fetchEntrataUnitTypes: const unitTypes = a || b || ... || []
fetchEntrataUnitTypes(d) == OrChain(Candidates(Result(d)), JArr(<<>>))

\* the unwrapping of fetchEntrataUnitTypes in the revision of
\* src/unnamed/part_001: the first of possiblePaths that is an array, else
\* the first non-empty array among result's properties, else []
PossiblePaths(result) ==
    <<OptGet(OptGet(result, "unitTypes"), "unitType"),
      OptGet(result, "UnitTypes"),
      OptGet(result, "unitTypes"),
      OptGet(result, "PropertyUnitTypes"),
      OptGet(OptGet(OptGet(result, "PhysicalProperty"), "Property"), "UnitType"),
      OptGet(OptGet(result, "Property"), "UnitType"),
      result>>

\* for (const path of possiblePaths) if (path && Array.isArray(path)) ...
FirstArrayPath(paths) ==
    IF \E j \in 1..Len(paths) : Truthy(paths[j]) /\ IsArray(paths[j])
    THEN paths[CHOOSE j \in 1..Len(paths) :
                 /\ Truthy(paths[j]) /\ IsArray(paths[j])
                 /\ \A l \in 1..(j - 1) : ~(Truthy(paths[l]) /\ IsArray(paths[l]))]
    ELSE JNull

\* for (const key of Object.keys(resultObj))
\*   if (Array.isArray(resultObj[key]) && resultObj[key].length > 0) ...
ScanResult(found, result) ==
    IF ~Truthy(found) /\ Truthy(result) /\ TypeofObject(result)
       /\ \E j \in 1..Len(result.k) : IsArray(result.a[j]) /\ Len(result.a[j].a) > 0
    THEN result.a[CHOOSE j \in 1..Len(result.k) :
                    /\ IsArray(result.a[j]) /\ Len(result.a[j].a) > 0
                    /\ \A l \in 1..(j - 1) : ~(IsArray(result.a[l]) /\ Len(result.a[l].a) > 0)]
    ELSE found

\* if (!Array.isArray(unitTypes)) { if (unitTypes && typeof unitTypes === 'object')
\*   unitTypes = [unitTypes]; else return []; }
WrapOrEmpty(found) ==
    IF IsArray(found) THEN found
    ELSE IF Truthy(found) /\ TypeofObject(found) THEN JArr(<<found>>)
    ELSE JArr(<<>>)

fetchEntrataUnitTypes_part001(d) ==
    WrapOrEmpty(ScanResult(FirstArrayPath(PossiblePaths(Result(d))), Result(d)))

\* the unwrapping of fetchEntrataFloorplans (src/unnamed/part_001)
fetchEntrataFloorplans(d) ==
    OrChain(<<OptGet(Result(d), "FloorPlans"), OptGet(Result(d), "PropertyFloorPlans"), Result(d)>>,
            JArr(<<>>))

----------------------------------------------------------------------------
(* The normalizer.  Strings are sequences of pieces: the characters of a   *)
(* source string, and the literal parts of a template string as one piece  *)
(* each.  Numeric source fields are integers, null or missing.             *)

UpperCase == <<"A", "B", "C", "D", "E", "F", "G", "H", "I", "J", "K", "L", "M",
               "N", "O", "P", "Q", "R", "S", "T", "U", "V", "W", "X", "Y", "Z">>
LowerCase == <<"a", "b", "c", "d", "e", "f", "g", "h", "i", "j", "k", "l", "m",
               "n", "o", "p", "q", "r", "s", "t", "u", "v", "w", "x", "y", "z">>
DigitChars == <<"0", "1", "2", "3", "4", "5", "6", "7", "8", "9">>

UpperToLower == [c \in {UpperCase[l] : l \in 1..Len(UpperCase)} |->
                    LowerCase[CHOOSE l \in 1..Len(UpperCase) : UpperCase[l] = c]]

\* s.toLowerCase()
toLowerCase(s) ==
    [j \in 1..Len(s) |-> IF s[j] \in DOMAIN UpperToLower THEN UpperToLower[s[j]] ELSE s[j]]

\* s.includes(sub)
includes(s, sub) ==
    \E off \in 0..(Len(s) - Len(sub)) : SubSeq(s, off + 1, off + Len(sub)) = sub

\* the class [a-z0-9]
AlNumChars ==
    {LowerCase[l] : l \in 1..Len(LowerCase)} \cup {DigitChars[l] : l \in 1..Len(DigitChars)}

AlNum(c) == c \in AlNumChars

\* s.replace(/[^a-z0-9]+/g, '-'): every run of other characters becomes one '-'
RECURSIVE replaceFrom(_, _)
replaceFrom(s, j) ==
    IF j > Len(s) THEN <<>>
    ELSE IF AlNum(s[j]) THEN <<s[j]>> \o replaceFrom(s, j + 1)
    ELSE IF j = 1 \/ AlNum(s[j - 1]) THEN <<"-">> \o replaceFrom(s, j + 1)
    ELSE replaceFrom(s, j + 1)

replace(s) == replaceFrom(s, 1)

\* the decimal digits of a natural number
RECURSIVE Digits(_)
Digits(n) == IF n < 10 THEN <<DigitChars[n + 1]>> ELSE Digits(n \div 10) \o <<DigitChars[(n % 10) + 1]>>

\* `${v}`: a value inside a template string
TemplateString(v) ==
    CASE v.t = "number" -> IF v.s < 0 THEN <<"-">> \o Digits(0 - v.s) ELSE Digits(v.s)
      [] v.t = "string" -> v.k
      [] v.t = "boolean" -> IF v.s = 1 THEN <<"true">> ELSE <<"false">>
      [] v.t = "array" -> <<>>
      [] v.t = "object" -> <<"[object Object]">>
      [] OTHER -> <<v.t>>

\* a rounding that drops the fraction
MathRound_floor(a, b) == IF b > 0 THEN a \div b ELSE (0 - a) \div (0 - b)

\* Math.round(a / b) of integers, b # 0: the nearest integer, a half goes up
MathRound(a, b) ==
    IF b > 0 THEN (2 * a + b) \div (2 * b) ELSE (0 - 2 * a - b) \div (0 - 2 * b)

\* getField(obj, ...fieldNames): the first obj[fieldName] !== undefined
getField(obj, fieldNames) ==
    IF \E j \in 1..Len(fieldNames) : Get(obj, fieldNames[j]).t # "undefined"
    THEN Get(obj, fieldNames[CHOOSE j \in 1..Len(fieldNames) :
                    /\ Get(obj, fieldNames[j]).t # "undefined"
                    /\ \A l \in 1..(j - 1) : Get(obj, fieldNames[l]).t = "undefined"])
    ELSE JUndefined

Chars_Standard == <<"S", "t", "a", "n", "d", "a", "r", "d">>
Chars_Unknown == <<"U", "n", "k", "n", "o", "w", "n">>
Chars_Corner == <<"C", "o", "r", "n", "e", "r">>
Chars_Townhouse == <<"T", "o", "w", "n", "h", "o", "u", "s", "e">>
Chars_Flat == <<"F", "l", "a", "t">>
Chars_Penthouse == <<"P", "e", "n", "t", "h", "o", "u", "s", "e">>
Chars_Loft == <<"L", "o", "f", "t">>
Chars_Studio == <<"S", "t", "u", "d", "i", "o">>

\* determineLayoutType(name) of a string
determineLayoutType(name) ==
    LET lowerName == toLowerCase(name)
    IN  IF name = <<>> THEN Chars_Standard
        ELSE IF includes(lowerName, toLowerCase(Chars_Corner)) THEN Chars_Corner
        ELSE IF \/ includes(lowerName, toLowerCase(Chars_Townhouse))
                \/ includes(lowerName, <<"t", "o", "w", "n", " ", "h", "o", "u", "s", "e">>)
             THEN Chars_Townhouse
        ELSE IF includes(lowerName, toLowerCase(Chars_Flat)) THEN Chars_Flat
        ELSE IF includes(lowerName, toLowerCase(Chars_Penthouse)) THEN Chars_Penthouse
        ELSE IF includes(lowerName, toLowerCase(Chars_Loft)) THEN Chars_Loft
        ELSE IF includes(lowerName, toLowerCase(Chars_Studio)) THEN Chars_Studio
        ELSE name

\* the constants of one callback of unitTypes.map
unitTypeId(unitType) == Or(getField(unitType, <<"UnitTypeId", "unitTypeId", "Id", "id">>), JStr(<<>>))
name(unitType) ==
    Or(getField(unitType, <<"Name", "name", "UnitTypeName", "unitTypeName">>), JStr(Chars_Unknown))
bedrooms(unitType) == Or(getField(unitType, <<"Bedrooms", "bedrooms", "Beds", "beds">>), JNum(0))
bathrooms(unitType) == Or(getField(unitType, <<"Bathrooms", "bathrooms", "Baths", "baths">>), JNum(0))
sqft(unitType) == Or(getField(unitType, <<"SquareFeet", "squareFeet", "SQFT", "sqft">>), JNum(0))
minRent(unitType) ==
    Or(getField(unitType, <<"MinRent", "minRent", "Rent", "rent", "MinimumRent">>), JNum(0))
availableUnits(unitType) ==
    Or(getField(unitType, <<"AvailableUnits", "availableUnits", "Available", "available">>), JNum(0))
imageUrl(unitType) ==
    Or(getField(unitType, <<"ImageUrl", "imageUrl", "Image", "image">>), JStr(<<>>))
description(unitType) == Or(getField(unitType, <<"Description", "description">>), JStr(<<>>))

cleanLayoutName(layoutType) == replace(toLowerCase(layoutType))

\* `${bedrooms}bed-${cleanLayoutName}`
slug(bedroomsV, layoutType) == TemplateString(bedroomsV) \o <<"bed-">> \o cleanLayoutName(layoutType)

\* minRent && bedrooms ? Math.round(minRent / bedrooms) : 0
pricePerBed(minRentV, bedroomsV) ==
    IF Truthy(minRentV) /\ Truthy(bedroomsV) THEN MathRound(minRentV.s, bedroomsV.s) ELSE 0

\* a status that calls everything available
availabilityStatus_always(availableUnitsV) == "available"

\* availableUnits > 0 ? 'available' : 'sold-out'
availabilityStatus(availableUnitsV) == IF availableUnitsV.s > 0 THEN "available" ELSE "sold-out"

\* pricePerBed >= 900
isElite(ppb) == ppb >= eliteThreshold

\* unitTypeId || `${config.entrataPropertyId}-${slug}`
floorplanId(id, config, slugV) ==
    Or(id, JStr(TemplateString(Get(config, "entrataPropertyId")) \o <<"-">> \o slugV))

\* one item of transformToWebflowItems: its fieldData
WebflowItem(unitType, config) ==
    LET bedroomsV == bedrooms(unitType)
        bathroomsV == bathrooms(unitType)
        sqftV == sqft(unitType)
        minRentV == minRent(unitType)
        availableUnitsV == availableUnits(unitType)
        layoutType == determineLayoutType(name(unitType).k)
        slugV == slug(bedroomsV, layoutType)
        ppb == pricePerBed(minRentV, bedroomsV)
    IN  [unit_name |-> TemplateString(bedroomsV) \o <<" Bed ">> \o layoutType,
         slug |-> slugV,
         bedrooms |-> bedroomsV,
         bathrooms |-> bathroomsV,
         square_footage |-> sqftV,
         starting_price |-> minRentV,
         available_units |-> availableUnitsV,
         layout_type |-> layoutType,
         description |->
            Or(description(unitType),
               JStr(TemplateString(bedroomsV) \o <<" bedroom, ">> \o TemplateString(bathroomsV)
                    \o <<" bathroom ">> \o layoutType \o <<" layout with ">>
                    \o TemplateString(sqftV) \o <<" sq ft.">>)),
         floor_plan_image |-> imageUrl(unitType),
         floorplan_id |-> floorplanId(unitTypeId(unitType), config, slugV),
         availability_status |-> availabilityStatus(availableUnitsV),
         tier_signature |-> ~isElite(ppb),
         tier_elite |-> isElite(ppb),
         price_per_bed |-> ppb,
         property_id |-> Get(config, "entrataPropertyId"),
         archived |-> FALSE,
         draft |-> FALSE]

\* the TypeError of one callback: getField reads obj[fieldName] of null or
\* undefined; determineLayoutType calls name.toLowerCase() of a name that is
\* no string
WebflowItemThrows(unitType) ==
    \/ unitType.t \in {"null", "undefined"}
    \/ name(unitType).t # "string"

\* unitTypes.map throws when unitTypes is no array, and when a callback throws
transformThrows(uts) ==
    \/ ~IsArray(uts)
    \/ \E j \in 1..Len(uts.a) : WebflowItemThrows(uts.a[j])

\* transformToWebflowItems(unitTypes, config)
transformToWebflowItems(uts, config) ==
    [j \in 1..Len(uts.a) |-> WebflowItem(uts.a[j], config)]

\* a slice that takes the element at `to` as well
slice_inclusive(s, from, to) == SubSeq(s, from + 1, Min(to + 1, Len(s)))

\* items.slice(from, to)
slice(s, from, to) == SubSeq(s, from + 1, Min(to, Len(s)))

----------------------------------------------------------------------------
(* The trace. *)

Event(type, prop, target, response, batch) ==
    [type |-> type, prop |-> prop, target |-> target, status |-> response.status,
     statusText |-> response.statusText, text |-> response.text, items |-> batch]

NoResponse == Response(0, "", "", JUndefined)

\* fetch(endpoint, ...) of fetchEntrataUnitTypes: params.propertyIds = propertyId
EntrataRequest(prop, propertyId) == Event("fetch", prop, propertyId, NoResponse, <<>>)
EntrataAnswer(prop, propertyId, response) == Event("fetched", prop, propertyId, response, <<>>)
\* a POST that always goes to the first collection
WebflowRequest_firstCollection(prop, collectionId, batch) ==
    Event("post", prop, JStr(<<"c", "1">>), NoResponse, batch)
\* fetch(endpoint, ...) of syncToWebflow: the collection of the endpoint, {items: batch}
WebflowRequest(prop, collectionId, batch) == Event("post", prop, collectionId, NoResponse, batch)
WebflowAnswer(prop, collectionId, response) == Event("posted", prop, collectionId, response, <<>>)
\* setTimeout(resolve, 1000)
DelayEvent(prop) == Event("delay", prop, JUndefined, NoResponse, <<>>)

----------------------------------------------------------------------------
(* The worker. *)

NoRequest == [pathname |-> "", method |-> ""]
Requests == [pathname : {"/sync", "/", "/sync/"}, method : {"POST", "GET"}]

HttpResponse(status, text, err) == [status |-> status, text |-> text, error |-> err]
NoHttpResponse == HttpResponse(0, "", NoError)

Init ==
    /\ PROPERTIES \in ConfigStrings
    /\ pc = "idle"
    /\ trigger = "none"
    /\ request = NoRequest
    /\ httpResponse = NoHttpResponse
    /\ promise = "none"
    /\ error = NoError
    /\ properties = <<>>
    /\ idx = 0
    /\ data = JUndefined
    /\ unitTypes = JUndefined
    /\ items = <<>>
    /\ i = 0
    /\ log = <<>>
    /\ created = <<>>
    /\ runs = <<>>

\* a fresh call of syncAllProperties(env)
CallSyncAllProperties ==
    /\ pc' = "syncAllProperties"
    /\ promise' = "pending"
    /\ error' = NoError
    /\ properties' = <<>>
    /\ idx' = 0
    /\ data' = JUndefined
    /\ unitTypes' = JUndefined
    /\ items' = <<>>
    /\ i' = 0

\* a catch in syncSingleProperty that swallows the error, so that the loop
\* of syncAllProperties goes on
Throw_retry(err) ==
    IF pc = "syncAllProperties"
    THEN pc' = "settled" /\ promise' = "rejected" /\ error' = err
    ELSE pc' = "forOf" /\ UNCHANGED <<promise, error>>

\* throw err: every catch on the way up (syncSingleProperty, syncAllProperties)
\* logs and rethrows the error it caught, so the promise is rejected with it
Throw(err) ==
    /\ pc' = "settled"
    /\ promise' = "rejected"
    /\ error' = err

\* a test that forgets the method
IsSyncRequest_anyMethod(req) == req.pathname = "/sync"

\* the predicate of the fetch handler's if
IsSyncRequest(req) == req.pathname = "/sync" /\ req.method = "POST"

\* fetch(request, env), up to its await or, for any other request, its return
Fetch(req) ==
    /\ pc = "idle"
    /\ request' = req
    /\ trigger' = "fetch"
    /\ log' = <<>>
    /\ IF IsSyncRequest(req)
       THEN /\ CallSyncAllProperties
            /\ httpResponse' = NoHttpResponse
       ELSE /\ httpResponse' = HttpResponse(200, "Entrata-Webflow Sync Worker. POST to /sync to trigger manually.", NoError)
            /\ pc' = "idle"
            /\ promise' = "none"
            /\ error' = NoError
            /\ properties' = <<>>
            /\ idx' = 0
            /\ data' = JUndefined
            /\ unitTypes' = JUndefined
            /\ items' = <<>>
            /\ i' = 0
    /\ UNCHANGED PROPERTIES

\* scheduled(event, env, ctx): ctx.waitUntil(syncAllProperties(env))
Scheduled ==
    /\ pc = "idle"
    /\ trigger' = "scheduled"
    /\ request' = NoRequest
    /\ httpResponse' = NoHttpResponse
    /\ log' = <<>>
    /\ CallSyncAllProperties
    /\ UNCHANGED PROPERTIES

\* the error of syncAllProperties' first two statements, NoError when they
\* run through: JSON.parse(env.PROPERTIES), properties.length, and the
\* start of for (const property of properties)
ParseError(cfg) ==
    CASE ~cfg.valid -> SyntaxError("Unexpected token in JSON")
      [] cfg.valid /\ cfg.value.t = "null" -> TypeError("Cannot read properties of null (reading 'length')")
      [] cfg.valid /\ cfg.value.t # "null" /\ ~Iterable(cfg.value) -> TypeError("properties is not iterable")
      [] OTHER -> NoError

\* syncAllProperties, up to the head of its loop
ParseProperties ==
    /\ pc = "syncAllProperties"
    /\ IF ParseError(PROPERTIES) # NoError
       THEN /\ Throw(ParseError(PROPERTIES))
            /\ UNCHANGED <<properties, idx>>
       ELSE /\ properties' = Iterate(PROPERTIES.value)
            /\ idx' = 1
            /\ pc' = "forOf"
            /\ UNCHANGED <<promise, error>>
    /\ UNCHANGED <<PROPERTIES, trigger, request, httpResponse, data, unitTypes, items, i, log>>

\* the loop of syncAllProperties is over: the function returns
AllSynced ==
    /\ pc = "forOf"
    /\ idx > Len(properties)
    /\ pc' = "settled"
    /\ promise' = "fulfilled"
    /\ UNCHANGED <<PROPERTIES, trigger, request, httpResponse, error, properties, idx,
                   data, unitTypes, items, i, log>>

\* syncSingleProperty(env, property) up to the await of the upstream fetch
FetchEntrata ==
    /\ pc = "forOf"
    /\ idx <= Len(properties)
    /\ log' = Append(log, EntrataRequest(idx, Get(properties[idx], "entrataPropertyId")))
    /\ pc' = "awaitEntrata"
    /\ UNCHANGED <<PROPERTIES, trigger, request, httpResponse, promise, error, properties,
                   idx, data, unitTypes, items, i>>

\* the error of the code between the upstream response and the call of
\* syncToWebflow, NoError when it runs through
FetchError(response) ==
    IF ~ok(response) THEN EntrataError(response)
    ELSE IF response.body.t \in {"null", "undefined"}
         THEN TypeError("Cannot read properties of null (reading 'response')")
    ELSE IF transformThrows(fetchEntrataUnitTypes(response.body))
         THEN TypeError("unitTypes.map is not a function")
    ELSE NoError

\* the upstream answers: the rest of fetchEntrataUnitTypes, the transform,
\* and syncToWebflow up to its loop
EntrataResponds(response) ==
    /\ pc = "awaitEntrata"
    /\ log' = Append(log, EntrataAnswer(idx, Get(properties[idx], "entrataPropertyId"), response))
    /\ IF FetchError(response) # NoError
       THEN /\ Throw(FetchError(response))
            /\ data' = IF ok(response) THEN response.body ELSE data
            /\ unitTypes' = IF ok(response) /\ response.body.t \notin {"null", "undefined"}
                            THEN fetchEntrataUnitTypes(response.body) ELSE unitTypes
            /\ UNCHANGED <<items, i, idx>>
       ELSE /\ data' = response.body
            /\ unitTypes' = fetchEntrataUnitTypes(response.body)
            /\ items' = transformToWebflowItems(fetchEntrataUnitTypes(response.body), properties[idx])
            /\ i' = 0
            /\ IF Len(items') = 0
               THEN /\ idx' = idx + 1
                    /\ pc' = "forOf"
               ELSE /\ idx' = idx
                    /\ pc' = "batch"
            /\ UNCHANGED <<promise, error>>
    /\ UNCHANGED <<PROPERTIES, trigger, request, httpResponse, properties>>

\* a test that is true after the last batch as well
MoreBatches_always(from, n) == from < n

\* a test that is never true: the loop ends after its first round
MoreBatches_never(from, n) == FALSE

\* if (i + batchSize < items.length): another batch follows this one
MoreBatches(from, n) == from + batchSize < n

\* one round of syncToWebflow's loop up to the await of the POST
PostBatch ==
    /\ pc = "batch"
    /\ i < Len(items)
    /\ log' = Append(log, WebflowRequest(idx, Get(properties[idx], "webflowCollectionId"),
                                         slice(items, i, i + batchSize)))
    /\ pc' = "awaitWebflow"
    /\ UNCHANGED <<PROPERTIES, trigger, request, httpResponse, promise, error, properties,
                   idx, data, unitTypes, items, i>>

\* the destination answers: the rest of the round, up to the timer or, after
\* the last batch, the return to syncAllProperties' loop
WebflowResponds(response) ==
    /\ pc = "awaitWebflow"
    /\ log' = Append(log, WebflowAnswer(idx, Get(properties[idx], "webflowCollectionId"), response))
    /\ IF ~ok(response)
       THEN /\ Throw(WebflowError(response))
            /\ UNCHANGED <<idx, i>>
       ELSE /\ IF MoreBatches(i, Len(items))
               THEN /\ pc' = "delay"
                    /\ UNCHANGED <<idx, i>>
               ELSE /\ i' = i + batchSize
                    /\ idx' = idx + 1
                    /\ pc' = "forOf"
            /\ UNCHANGED <<promise, error>>
    /\ UNCHANGED <<PROPERTIES, trigger, request, httpResponse, properties, data, unitTypes, items>>

\* the timer fires: i += batchSize and the loop condition is tested again
Delay ==
    /\ pc = "delay"
    /\ log' = Append(log, DelayEvent(idx))
    /\ i' = i + batchSize
    /\ IF i' < Len(items)
       THEN /\ pc' = "batch"
            /\ idx' = idx
       ELSE /\ pc' = "forOf"
            /\ idx' = idx + 1
    /\ UNCHANGED <<PROPERTIES, trigger, request, httpResponse, promise, error, properties,
                   data, unitTypes, items>>

\* the Response of the fetch handler once the awaited promise is settled
SyncResponse(settled, err) ==
    IF settled = "fulfilled"
    THEN HttpResponse(200, "Sync completed successfully", NoError)
    ELSE HttpResponse(500, "Sync failed: ", err)

\* the fetch handler resumes after await syncAllProperties(env)
Respond ==
    /\ pc = "settled"
    /\ trigger = "fetch"
    /\ httpResponse' = SyncResponse(promise, error)
    /\ pc' = "idle"
    /\ UNCHANGED <<PROPERTIES, trigger, request, promise, error, properties, idx, data,
                   unitTypes, items, i, log>>

\* the promise handed to ctx.waitUntil settles; nobody looks at its outcome
WaitUntilSettled ==
    /\ pc = "settled"
    /\ trigger = "scheduled"
    /\ pc' = "idle"
    /\ UNCHANGED <<PROPERTIES, trigger, request, httpResponse, promise, error, properties,
                   idx, data, unitTypes, items, i, log>>

\* a step with the destination's content and past invocations out of the picture
Unobserved == UNCHANGED <<created, runs>>

\* The worker against services that answer anything, one invocation after
\* the other; what the destination holds is not followed.
Next ==
    \/ \E req \in Requests : Fetch(req) /\ Unobserved
    \/ Scheduled /\ Unobserved
    \/ ParseProperties /\ Unobserved
    \/ AllSynced /\ Unobserved
    \/ FetchEntrata /\ Unobserved
    \/ \E response \in EntrataResponses : EntrataResponds(response) /\ Unobserved
    \/ PostBatch /\ Unobserved
    \/ \E response \in WebflowResponses : WebflowResponds(response) /\ Unobserved
    \/ Delay /\ Unobserved
    \/ Respond /\ Unobserved
    \/ WaitUntilSettled /\ Unobserved

Spec == Init /\ [][Next]_vars

----------------------------------------------------------------------------
(* Repeated runs: at most MaxRuns scheduled invocations against an         *)
(* upstream whose data does not change and a destination that creates the  *)
(* items of every POST it accepts and keeps them.                          *)

\* what the upstream holds for a property, the same at every fetch
Upstream(propertyId) ==
    IF propertyId = JStr(<<"p", "1">>)
    THEN Response(200, "OK", "", Wrap(JObj(<<"UnitTypes">>, <<JArr(Records(MaxItems))>>)))
    ELSE IF propertyId = JStr(<<"p", "2">>)
    THEN Response(200, "OK", "", Wrap(JObj(<<"UnitTypes">>, <<JArr(Records(1))>>)))
    ELSE Response(200, "OK", "", Wrap(JObj(<<"UnitTypes">>, <<JArr(<<>>)>>)))

\* POST /collections/{id}/items answered with a success status: the
\* destination has created the items of the request in that collection
DestinationCreates(response) ==
    LET post == log[Len(log)]
    IN  created' =
            IF response.status >= 200 /\ response.status <= 299
            THEN created \o [n \in 1..Len(post.items) |->
                                [collection |-> post.target, item |-> post.items[n]]]
            ELSE created

\* an invocation starts
RunStarts ==
    /\ Len(runs) < MaxRuns
    /\ runs' = Append(runs, [start |-> Len(created), outcome |-> "pending"])
    /\ UNCHANGED created

\* an invocation is over
RunEnds ==
    /\ runs' = [runs EXCEPT ![Len(runs)].outcome = promise]
    /\ UNCHANGED created

InitRuns ==
    /\ Init
    /\ PROPERTIES.value.t = "array"
    /\ \A p, q \in 1..Len(PROPERTIES.value.a) :
            PROPERTIES.value.a[p] = PROPERTIES.value.a[q] => p = q

NextRuns ==
    \/ Scheduled /\ RunStarts
    \/ ParseProperties /\ Unobserved
    \/ AllSynced /\ Unobserved
    \/ FetchEntrata /\ Unobserved
    \/ EntrataResponds(Upstream(Get(properties[idx], "entrataPropertyId"))) /\ Unobserved
    \/ PostBatch /\ Unobserved
    \/ \E response \in WebflowResponses :
            WebflowResponds(response) /\ DestinationCreates(response) /\ UNCHANGED runs
    \/ Delay /\ Unobserved
    \/ WaitUntilSettled /\ RunEnds

SpecRuns == InitRuns /\ [][NextRuns]_vars

----------------------------------------------------------------------------
(* The normalizer on its own: transformToWebflowItems applied to one       *)
(* source record, for every record of NormalizerRecords.                   *)

\* the field names a source record uses: the first or the last of getField's
KeyStyles ==
    {[name |-> "Name", bedrooms |-> "Bedrooms", minRent |-> "MinRent",
      availableUnits |-> "AvailableUnits"],
     [name |-> "unitTypeName", bedrooms |-> "beds", minRent |-> "rent",
      availableUnits |-> "available"]}

NameValues ==
    {JUndefined, JNull, JNum(5),
     JStr(<<"C", "o", "r", "n", "e", "r", " ", "F", "l", "a", "t">>),
     JStr(<<"E", "l", "i", "t", "e", " ", "L", "O", "F", "T">>),
     JStr(<<"s", "i", "g", "n", "a", "t", "u", "r", "e", " ", "s", "t", "u", "d", "i", "o">>),
     JStr(<<"T", "o", "w", "n", " ", "H", "o", "u", "s", "e">>),
     JStr(<<"P", "e", "n", "t", "h", "o", "u", "s", "e">>),
     JStr(<<"A", "1", " ", "&", " ", "B">>)}

BedroomValues == {JUndefined, JNull} \cup {JNum(n) : n \in {0 - 2, 0, 1, 2, 3}}
MinRentValues == {JUndefined, JNull} \cup {JNum(n) : n \in {0, 899, 900, 1000, 1001, 1799}}
AvailableUnitsValues == {JUndefined, JNull} \cup {JNum(n) : n \in {0 - 1, 0, 3}}

\* the object of the fields that are not undefined, in the order given
RECURSIVE ObjectOf(_, _)
ObjectOf(keys, vals) ==
    IF keys = <<>> THEN JObj(<<>>, <<>>)
    ELSE LET rest == ObjectOf(Tail(keys), Tail(vals))
         IN  IF Head(vals).t = "undefined" THEN rest
             ELSE JObj(<<Head(keys)>> \o rest.k, <<Head(vals)>> \o rest.a)

NormalizerRecords ==
    {ObjectOf(<<ks.name, ks.bedrooms, ks.minRent, ks.availableUnits>>, <<n, b, m, a>>) :
        ks \in KeyStyles, n \in NameValues, b \in BedroomValues,
        m \in MinRentValues, a \in AvailableUnitsValues}

InitNormalize ==
    /\ PROPERTIES = [valid |-> TRUE, value |-> JArr(<<PropertyConfig(<<"p", "1">>, <<"c", "1">>)>>)]
    /\ pc = "transform"
    /\ trigger = "none"
    /\ request = NoRequest
    /\ httpResponse = NoHttpResponse
    /\ promise = "pending"
    /\ error = NoError
    /\ properties = PROPERTIES.value.a
    /\ idx = 1
    /\ data = JUndefined
    /\ unitTypes \in {JArr(<<unitType>>) : unitType \in NormalizerRecords}
    /\ items = <<>>
    /\ i = 0
    /\ log = <<>>
    /\ created = <<>>
    /\ runs = <<>>

\* const webflowItems = transformToWebflowItems(unitTypes, config)
Transform ==
    /\ pc = "transform"
    /\ IF transformThrows(unitTypes)
       THEN /\ Throw(TypeError("name.toLowerCase is not a function"))
            /\ UNCHANGED items
       ELSE /\ items' = transformToWebflowItems(unitTypes, properties[idx])
            /\ pc' = "transformed"
            /\ UNCHANGED <<promise, error>>
    /\ UNCHANGED <<PROPERTIES, trigger, request, httpResponse, properties, idx, data,
                   unitTypes, i, log>>

NextNormalize == Transform /\ Unobserved

SpecNormalize == InitNormalize /\ [][NextNormalize]_vars

----------------------------------------------------------------------------
(* Reading the trace. *)

\* the events of kind type made for the p-th property of the run
EventsOf(type, p) == SelectSeq(log, LAMBDA e : e.type = type /\ e.prop = p)

\* an answer with a non-success HTTP status
Failed(e) == e.type \in {"fetched", "posted"} /\ (e.status < 200 \/ e.status > 299)

\* the property whose items are in `items` is being published
Publishing == pc \in {"batch", "awaitWebflow", "delay"}

\* the publish of the (idx-1)-th property, whose items are in `items`, has
\* returned
Published == promise \in {"pending", "fulfilled"} /\ pc \in {"forOf", "settled", "idle"} /\ idx >= 2

----------------------------------------------------------------------------
(* C1: one publish of N items to a destination that accepts every request  *)
(* issues exactly ceil(N/100) POSTs, none for N = 0; the k-th carries the   *)
(* items 100*(k-1) .. min(100*k, N)-1 in their order, so each POST holds 1  *)
(* to 100 items and every item is sent exactly once (the POSTs' items, one  *)
(* after the other, are the item list).  While a publish is under way the  *)
(* POSTs sent so far are the first chunks of that sequence.                *)

\* items 100*(k-1) .. min(100*k, N)-1 (0-based) of the item list
C1_Chunk(k) ==
    [j \in 1..(Min(100 * k, Len(items)) - 100 * (k - 1)) |-> items[100 * (k - 1) + j]]

C1_ChunksOf(posts) ==
    \A k \in 1..Len(posts) :
        /\ posts[k].items = C1_Chunk(k)
        /\ Len(posts[k].items) \in 1..100

\* the items of a sequence of POSTs, one after the other
RECURSIVE C1_Sent(_)
C1_Sent(posts) == IF posts = <<>> THEN <<>> ELSE Head(posts).items \o C1_Sent(Tail(posts))

C1_BatchPartition ==
    /\ Publishing => C1_ChunksOf(EventsOf("post", idx))
    /\ Published =>
          LET posts == EventsOf("post", idx - 1)
          IN  /\ C1_ChunksOf(posts)
              /\ Len(posts) = (Len(items) + 99) \div 100
              /\ C1_Sent(posts) = items

\* MaxItems items went out as three POSTs, the last one with the rest
C1_Witness ==
    /\ Published
    /\ Len(items) = MaxItems
    /\ Len(EventsOf("post", idx - 1)) = 3
    /\ Len(EventsOf("post", idx - 1)[3].items) = MaxItems - 2 * batchSize

----------------------------------------------------------------------------
(* C2: when the destination answers batch k of a publish with a            *)
(* non-success status, nothing more is sent for that publish (no later     *)
(* batch, no second POST of batch k, no delay) and the publish ends in an  *)
(* error that carries the status and the body text of that response.       *)

C2_FailedBatchAborts ==
    \A n \in 1..Len(log) :
        (log[n].type = "posted" /\ Failed(log[n])) =>
            /\ \A m \in (n + 1)..Len(log) : log[m].type \notin {"post", "delay"}
            /\ log[n - 1].type = "post"
            /\ Cardinality({m \in 1..Len(log) :
                              /\ log[m].type = "post"
                              /\ log[m].prop = log[n].prop
                              /\ log[m].items = log[n - 1].items}) = 1
            /\ promise = "rejected"
            /\ error.name = "Error"
            /\ error.message = "Webflow API failed"
            /\ error.status = log[n].status
            /\ error.text = log[n].text

\* batch 2 of 3 was refused
C2_Witness ==
    /\ Len(log) > 0
    /\ Failed(log[Len(log)])
    /\ log[Len(log)].type = "posted"
    /\ Len(items) > 2 * batchSize
    /\ Len(EventsOf("post", idx)) = 2
    /\ promise = "rejected"

----------------------------------------------------------------------------
(* C3: over a configuration array c1..cN the properties are processed one  *)
(* at a time in input order: the trace never goes back to an earlier       *)
(* property, every request is answered before anything else is put on the  *)
(* wire, each property is fetched at most once and before anything is      *)
(* posted for it, the fetch for the i-th property names ci's source        *)
(* property identifier, and a run that succeeds made exactly N fetches,    *)
(* the i-th for ci.                                                        *)

C3_AnswerOf(type) == IF type = "fetch" THEN "fetched" ELSE "posted"
C3_AwaitOf(type) == IF type = "fetch" THEN "awaitEntrata" ELSE "awaitWebflow"

C3_SequentialInOrder ==
    (PROPERTIES.valid /\ PROPERTIES.value.t = "array") =>
        LET cfg == PROPERTIES.value.a
        IN  /\ \A n \in 1..Len(log) : log[n].prop \in 1..Len(cfg)
            /\ \A m, n \in 1..Len(log) : m < n => log[m].prop <= log[n].prop
            /\ \A n \in 1..Len(log) :
                  log[n].type \in {"fetch", "post"} =>
                      IF n < Len(log)
                      THEN /\ log[n + 1].type = C3_AnswerOf(log[n].type)
                           /\ log[n + 1].prop = log[n].prop
                      ELSE pc = C3_AwaitOf(log[n].type)
            /\ \A n \in 1..Len(log) :
                  log[n].type = "fetch" =>
                      /\ log[n].target = Get(cfg[log[n].prop], "entrataPropertyId")
                      /\ \A m \in 1..Len(log) : (m # n /\ log[m].prop = log[n].prop) =>
                            (m > n /\ log[m].type # "fetch")
            /\ \A n \in 1..Len(log) :
                  log[n].type # "fetch" => \E m \in 1..(n - 1) :
                      log[m].type = "fetch" /\ log[m].prop = log[n].prop
            /\ promise = "fulfilled" =>
                  SelectSeq(log, LAMBDA e : e.type = "fetch")
                      = [p \in 1..Len(cfg) |-> EntrataRequest(p, Get(cfg[p], "entrataPropertyId"))]

\* a run over two different properties succeeded, with POSTs for both
C3_Witness ==
    /\ PROPERTIES.valid
    /\ PROPERTIES.value.t = "array"
    /\ Len(PROPERTIES.value.a) = 2
    /\ PROPERTIES.value.a[1] # PROPERTIES.value.a[2]
    /\ promise = "fulfilled"
    /\ EventsOf("post", 1) # <<>>
    /\ EventsOf("post", 2) # <<>>

----------------------------------------------------------------------------
(* C4: every error ends the run and nothing is retried: a failed answer is *)
(* the last thing on the trace (no retry of that property, no fetch or     *)
(* POST for a later one), a rejected run has put nothing on the wire since *)
(* the answer that made it fail, and syncAllProperties is rejected with    *)
(* the error that answer gave rise to.                                     *)

C4_ErrorOf(e) ==
    [name |-> "Error",
     message |-> IF e.type = "fetched" THEN "Entrata API failed" ELSE "Webflow API failed",
     status |-> e.status,
     statusText |-> IF e.type = "fetched" THEN e.statusText ELSE "",
     text |-> e.text]

C4_ErrorsAreFatal ==
    /\ \A n \in 1..Len(log) :
          Failed(log[n]) =>
              /\ n = Len(log)
              /\ promise = "rejected"
              /\ error = C4_ErrorOf(log[n])
              /\ Len(EventsOf("fetch", log[n].prop)) = 1
              /\ \A p \in 1..Len(properties) : p > log[n].prop =>
                    /\ EventsOf("fetch", p) = <<>>
                    /\ EventsOf("post", p) = <<>>
    /\ promise = "rejected" =>
          /\ pc \in {"settled", "idle"}
          /\ error # NoError
          /\ log # <<>> => log[Len(log)].type \in {"fetched", "posted"}
    /\ promise \in {"pending", "fulfilled"} => error = NoError

\* the first of two properties failed in its publish
C4_Witness ==
    /\ Len(properties) = 2
    /\ promise = "rejected"
    /\ idx = 1
    /\ Len(log) > 0
    /\ log[Len(log)].type = "posted"
    /\ pc = "idle"

----------------------------------------------------------------------------
(* C5: when the upstream answers a property's fetch with a non-success     *)
(* status the run fails with an error carrying that status (and status     *)
(* text) and the body text of the response, exactly one upstream request   *)
(* was made for that property and no destination request at all.           *)

C5_UpstreamFailure ==
    \A n \in 1..Len(log) :
        (log[n].type = "fetched" /\ Failed(log[n])) =>
            /\ promise = "rejected"
            /\ error.name = "Error"
            /\ error.message = "Entrata API failed"
            /\ error.status = log[n].status
            /\ error.statusText = log[n].statusText
            /\ error.text = log[n].text
            /\ Len(EventsOf("fetch", log[n].prop)) = 1
            /\ EventsOf("post", log[n].prop) = <<>>

\* the fetch of the second property was refused after the first was published
C5_Witness ==
    /\ Len(log) > 0
    /\ log[Len(log)].type = "fetched"
    /\ Failed(log[Len(log)])
    /\ log[Len(log)].prop = 2
    /\ EventsOf("post", 1) # <<>>
    /\ promise = "rejected"

----------------------------------------------------------------------------
(* C6: a configuration string that is not JSON, or is JSON but no array,   *)
(* fails the run with a configuration error before any network call: the   *)
(* run is never fulfilled and the trace holds no fetch and no POST.        *)

C6_ConfigErrorBeforeNetwork ==
    (~PROPERTIES.valid \/ PROPERTIES.value.t # "array") =>
        /\ promise # "fulfilled"
        /\ \A n \in 1..Len(log) : log[n].type \notin {"fetch", "post"}

----------------------------------------------------------------------------
(* C7: a publish whose k >= 1 batches are all accepted takes exactly k-1   *)
(* delays: every delay comes right after the accepting answer to a batch   *)
(* and right before the next batch of the same publish, every batch but    *)
(* the first of a publish comes right after a delay, the first comes       *)
(* right after the answer to the fetch, and never are there as many        *)
(* delays as the publish has batches.                                      *)

C7_DelaysBetweenBatches ==
    /\ \A n \in 1..Len(log) :
          log[n].type = "delay" =>
              /\ n > 1
              /\ log[n - 1].type = "posted"
              /\ ~Failed(log[n - 1])
              /\ log[n - 1].prop = log[n].prop
              /\ n < Len(log) => (log[n + 1].type = "post" /\ log[n + 1].prop = log[n].prop)
              /\ n = Len(log) => pc = "batch"
    /\ \A n \in 1..Len(log) :
          log[n].type = "post" =>
              /\ n > 1
              /\ log[n - 1].prop = log[n].prop
              /\ log[n - 1].type =
                    IF \A m \in 1..(n - 1) : ~(log[m].type = "post" /\ log[m].prop = log[n].prop)
                    THEN "fetched" ELSE "delay"
    /\ (Publishing \/ Published) =>
          LET p == IF Publishing THEN idx ELSE idx - 1
          IN  /\ Len(EventsOf("delay", p)) <= Len(EventsOf("post", p))
              /\ Len(items) > 0 => Len(EventsOf("delay", p)) < (Len(items) + 99) \div 100
              /\ (Published /\ Len(items) > 0) =>
                    /\ Len(EventsOf("delay", p)) = Len(EventsOf("post", p)) - 1
                    /\ \A n \in 1..Len(log) :
                          (log[n].prop = p /\ \A m \in (n + 1)..Len(log) : log[m].prop # p)
                              => log[n].type = "posted"

\* three batches were accepted and two delays taken
C7_Witness ==
    /\ Published
    /\ Len(EventsOf("post", idx - 1)) = 3
    /\ Len(EventsOf("delay", idx - 1)) = 2

----------------------------------------------------------------------------
(* C8: the fetch handler answers POST /sync only once the whole run is     *)
(* over, with 200 exactly when the run succeeded and with 500 and the      *)
(* stringified error exactly when it failed; any other path or method is   *)
(* answered with 200 and runs nothing of the pipeline.                     *)

C8_HttpEntryPoint ==
    /\ (trigger = "fetch" /\ request.pathname = "/sync" /\ request.method = "POST") =>
          /\ httpResponse = NoHttpResponse <=> pc # "idle"
          /\ httpResponse # NoHttpResponse =>
                /\ promise \in {"fulfilled", "rejected"}
                /\ httpResponse.status \in {200, 500}
                /\ httpResponse.status = 200 <=> promise = "fulfilled"
                /\ httpResponse.status = 500 <=> promise = "rejected"
                /\ httpResponse.status = 500 =>
                      /\ httpResponse.text = "Sync failed: "
                      /\ httpResponse.error = error
                      /\ error # NoError
          /\ promise # "none"
    /\ (trigger = "fetch" /\ ~(request.pathname = "/sync" /\ request.method = "POST")) =>
          /\ httpResponse.status = 200
          /\ promise = "none"
          /\ pc = "idle"
          /\ log = <<>>

\* POST /sync was answered 500 after the destination refused a batch
C8_Witness ==
    /\ trigger = "fetch"
    /\ request = [pathname |-> "/sync", method |-> "POST"]
    /\ httpResponse.status = 500
    /\ httpResponse.error.message = "Webflow API failed"
    /\ Len(log) > 4

----------------------------------------------------------------------------
(* C9: of a success response whose body is {response:{result:{FloorPlans:  *)
(* [...]}}}, {response:{result:{unitTypes:{unitType:[...]}}}} or           *)
(* {response:{result:{}}} the fetcher returns the FloorPlans array, the    *)
(* nested unitType array and the empty array.                              *)

C9_IsFloorPlans(result) ==
    result.t = "object" /\ result.k = <<"FloorPlans">> /\ IsArray(result.a[1])

C9_IsNestedUnitType(result) ==
    /\ result.t = "object"
    /\ result.k = <<"unitTypes">>
    /\ result.a[1].t = "object"
    /\ result.a[1].k = <<"unitType">>
    /\ IsArray(result.a[1].a[1])

C9_ShapeProbing ==
    (PROPERTIES.value.t = "array" /\ data.t = "object") =>
        /\ C9_IsFloorPlans(Result(data)) => unitTypes = Result(data).a[1]
        /\ C9_IsNestedUnitType(Result(data)) => unitTypes = Result(data).a[1].a[1]
        /\ Result(data) = JObj(<<>>, <<>>) => unitTypes = JArr(<<>>)

----------------------------------------------------------------------------
(* C10: the fetcher returns the first of its candidate paths that is an    *)
(* array; failing them the first array-valued property of the result       *)
(* object, be it empty; failing that, for a result that is one non-array   *)
(* object, the one-element array of it; and the empty array otherwise.     *)
(* Stated of fetchEntrataUnitTypes as the pipeline runs it and of its      *)
(* revision in src/unnamed/part_001, each with its own candidate paths.    *)

C10_Fallback(paths, result) ==
    IF \E j \in 1..Len(paths) : IsArray(paths[j])
    THEN paths[CHOOSE j \in 1..Len(paths) :
                 IsArray(paths[j]) /\ \A l \in 1..(j - 1) : ~IsArray(paths[l])]
    ELSE IF result.t = "object" /\ \E j \in 1..Len(result.k) : IsArray(result.a[j])
    THEN result.a[CHOOSE j \in 1..Len(result.k) :
                    IsArray(result.a[j]) /\ \A l \in 1..(j - 1) : ~IsArray(result.a[l])]
    ELSE IF result.t = "object"
    THEN JArr(<<result>>)
    ELSE JArr(<<>>)

C10_FallbackOrder ==
    (PROPERTIES.value.t = "array" /\ data.t = "object") =>
        /\ unitTypes = C10_Fallback(Candidates(Result(data)), Result(data))
        /\ fetchEntrataUnitTypes_part001(data) = C10_Fallback(PossiblePaths(Result(data)), Result(data))

----------------------------------------------------------------------------
(* C11: shape drift never crashes the pipeline: after every success        *)
(* response of the upstream, whatever the shape of its body, the fetcher   *)
(* has returned an array and the run has not been rejected.                *)

C11_ShapeDriftTolerated ==
    (/\ PROPERTIES.value.t = "array"
     /\ Len(log) > 0
     /\ log[Len(log)].type = "fetched"
     /\ ~Failed(log[Len(log)]))
        => IsArray(unitTypes) /\ promise # "rejected"

----------------------------------------------------------------------------
(* Reading a source record and its item (SpecNormalize). *)

\* the value a record has under one of the keys, undefined when it has none
SourceField(unitType, keys) ==
    IF \E j \in 1..Len(unitType.k) : unitType.k[j] \in keys
    THEN unitType.a[CHOOSE j \in 1..Len(unitType.k) : unitType.k[j] \in keys]
    ELSE JUndefined

SourceName == SourceField(unitTypes.a[1], {"Name", "name", "UnitTypeName", "unitTypeName"})
SourceBedrooms == SourceField(unitTypes.a[1], {"Bedrooms", "bedrooms", "Beds", "beds"})
SourceMinRent == SourceField(unitTypes.a[1], {"MinRent", "minRent", "Rent", "rent", "MinimumRent"})
SourceAvailableUnits ==
    SourceField(unitTypes.a[1], {"AvailableUnits", "availableUnits", "Available", "available"})

\* the transform of the record is over, with an item or with an error
Normalized == pc \in {"transformed", "settled"}

\* the nearest integer to a / b for a >= 0 and b > 0, a half going up
RoundedQuotient(a, b) == CHOOSE n \in 0..a : 2 * b * n <= 2 * a + b /\ 2 * a + b < 2 * b * (n + 1)

----------------------------------------------------------------------------
(* C12: the normalizer is total: for every source record, its fields       *)
(* missing, null or of an unexpected type, it raises no error and yields   *)
(* an item whose numeric fields (bedrooms, bathrooms, square footage,      *)
(* starting price, price per bed, available units) are numbers, are 0      *)
(* when the source field is missing, and whose slug is not empty.          *)

C12_NormalizerTotal ==
    Normalized =>
        /\ pc = "transformed"
        /\ error = NoError
        /\ Len(items) = 1
        /\ \A v \in {items[1].bedrooms, items[1].bathrooms, items[1].square_footage,
                      items[1].starting_price, items[1].available_units} : v.t = "number"
        /\ SourceBedrooms.t = "undefined" => items[1].bedrooms = JNum(0)
        /\ SourceMinRent.t = "undefined" => items[1].starting_price = JNum(0)
        /\ SourceAvailableUnits.t = "undefined" => items[1].available_units = JNum(0)
        /\ items[1].bathrooms = JNum(0) /\ items[1].square_footage = JNum(0)
        /\ SourceBedrooms.t = "undefined" \/ SourceMinRent.t = "undefined"
                => items[1].price_per_bed = 0
        /\ Len(items[1].slug) > 0

----------------------------------------------------------------------------
(* C13: price per bed is round(minPrice / bedrooms) when both are present  *)
(* and bedrooms > 0, and 0 in every other case: bedrooms missing, 0 or     *)
(* negative, or minPrice missing.                                          *)

C13_PricePerBed ==
    pc = "transformed" =>
        items[1].price_per_bed =
            IF /\ SourceMinRent.t = "number" /\ SourceBedrooms.t = "number"
               /\ SourceBedrooms.s > 0
            THEN RoundedQuotient(SourceMinRent.s, SourceBedrooms.s)
            ELSE 0

----------------------------------------------------------------------------
(* C14: a name containing "elite" sets tier-elite and a name containing    *)
(* "signature" sets tier-signature, whatever the price; without a keyword  *)
(* a price per bed of 900 or more sets tier-elite and any lower one, 0     *)
(* included, sets tier-signature; exactly one of the two flags is true.    *)

C14_EliteByClaim ==
    LET lowerName == toLowerCase(SourceName.k)
    IN  IF includes(lowerName, <<"e", "l", "i", "t", "e">>) THEN TRUE
        ELSE IF includes(lowerName, <<"s", "i", "g", "n", "a", "t", "u", "r", "e">>) THEN FALSE
        ELSE items[1].price_per_bed >= eliteThreshold

C14_TierFlags ==
    pc = "transformed" =>
        /\ items[1].tier_elite = C14_EliteByClaim
        /\ items[1].tier_signature = ~C14_EliteByClaim

----------------------------------------------------------------------------
(* C15: the availability status of an item is "available" exactly when     *)
(* the record's available-unit count is greater than 0 and "sold-out"      *)
(* otherwise (a missing count included), and the item's available-units    *)
(* field is that count (0 when there is none).                             *)

C15_Availability ==
    pc = "transformed" =>
        LET hasCount == SourceAvailableUnits.t = "number"
        IN  /\ items[1].availability_status
                 = IF hasCount /\ SourceAvailableUnits.s > 0 THEN "available" ELSE "sold-out"
            /\ items[1].available_units = IF hasCount THEN SourceAvailableUnits ELSE JNum(0)

\* a record with 3 available units became an available item
C15_Witness ==
    /\ pc = "transformed"
    /\ SourceAvailableUnits = JNum(3)
    /\ items[1].availability_status = "available"
    /\ items[1].available_units = JNum(3)

----------------------------------------------------------------------------
(* C16: the layout type is the first keyword of corner, townhouse, flat,   *)
(* penthouse, loft, studio that occurs in the name, whatever the case of   *)
(* its letters; the name itself when none occurs; "Standard" when the      *)
(* record has no name, and then the slug ends in "standard".               *)

C16_Keywords == <<Chars_Corner, Chars_Townhouse, Chars_Flat, Chars_Penthouse, Chars_Loft, Chars_Studio>>

C16_LayoutByClaim ==
    LET lowerName == toLowerCase(SourceName.k)
        occurs(j) == includes(lowerName, toLowerCase(C16_Keywords[j]))
    IN  IF SourceName.t # "string" \/ SourceName.k = <<>> THEN Chars_Standard
        ELSE IF \E j \in 1..Len(C16_Keywords) : occurs(j)
        THEN C16_Keywords[CHOOSE j \in 1..Len(C16_Keywords) :
                            occurs(j) /\ \A l \in 1..(j - 1) : ~occurs(l)]
        ELSE SourceName.k

C16_LayoutType ==
    pc = "transformed" =>
        /\ items[1].layout_type = C16_LayoutByClaim
        /\ SourceName.t = "undefined" =>
              /\ Len(items[1].slug) >= Len(Chars_Standard)
              /\ SubSeq(items[1].slug, Len(items[1].slug) - Len(Chars_Standard) + 1,
                        Len(items[1].slug)) = toLowerCase(Chars_Standard)

----------------------------------------------------------------------------
(* C17: for a record with minPrice and with bedrooms > 0, the price per    *)
(* bed is floor(minPrice / bedrooms).                                      *)

C17_Floor ==
    (/\ pc = "transformed" /\ SourceMinRent.t = "number" /\ SourceBedrooms.t = "number"
     /\ SourceBedrooms.s > 0)
        => items[1].price_per_bed = SourceMinRent.s \div SourceBedrooms.s

(* C17, amended: for a record with minPrice and with bedrooms > 0, the     *)
(* price per bed is minPrice / bedrooms rounded to the nearest integer, a  *)
(* half going up: 1000 / 3 gives 333 and 1001 / 2 gives 501.               *)

C17_Rounded ==
    (/\ pc = "transformed" /\ SourceMinRent.t = "number" /\ SourceBedrooms.t = "number"
     /\ SourceBedrooms.s > 0)
        => items[1].price_per_bed = RoundedQuotient(SourceMinRent.s, SourceBedrooms.s)

\* 1001 / 2 became 501
C17_Witness ==
    /\ pc = "transformed"
    /\ SourceMinRent = JNum(1001)
    /\ SourceBedrooms = JNum(2)
    /\ items[1].price_per_bed = 501

----------------------------------------------------------------------------
(* Reading the destination (SpecRuns). *)

\* the items the destination holds in a collection for one source record
CreatedFor(collectionId, propertyId, unitType) ==
    {n \in 1..Len(created) :
        /\ created[n].collection = collectionId
        /\ created[n].item.property_id = propertyId
        /\ created[n].item.floorplan_id = Get(unitType, "UnitTypeId")}

\* the records the upstream holds for a property
UpstreamRecords(propertyId) == Get(Get(Get(Upstream(propertyId).body, "response"), "result"), "UnitTypes").a

\* what the POSTs log[1..n] asked the destination to create
RECURSIVE Posted(_)
Posted(n) ==
    IF n = 0 THEN <<>>
    ELSE IF log[n].type = "post"
    THEN Posted(n - 1) \o [j \in 1..Len(log[n].items) |->
                              [collection |-> log[n].target, item |-> log[n].items[j]]]
    ELSE Posted(n - 1)

----------------------------------------------------------------------------
(* C18: a run is not idempotent on the destination: every destination      *)
(* request is a create, so after r successful runs against unchanged       *)
(* upstream data the destination holds r items for every source record,    *)
(* in the collection of the record's property.                             *)

C18_EveryRunCreatesAgain ==
    (/\ pc = "idle"
     /\ \A r \in 1..Len(runs) : runs[r].outcome = "fulfilled")
        => \A p \in 1..Len(PROPERTIES.value.a) :
                LET config == PROPERTIES.value.a[p]
                    propertyId == Get(config, "entrataPropertyId")
                IN  \A j \in 1..Len(UpstreamRecords(propertyId)) :
                        Cardinality(CreatedFor(Get(config, "webflowCollectionId"), propertyId,
                                               UpstreamRecords(propertyId)[j])) = Len(runs)

\* two successful runs over two properties: every record is there twice
C18_Witness ==
    /\ pc = "idle"
    /\ Len(runs) = 2
    /\ \A r \in 1..Len(runs) : runs[r].outcome = "fulfilled"
    /\ Len(PROPERTIES.value.a) = 2
    /\ Len(created) = 2 * (MaxItems + 1)

----------------------------------------------------------------------------
(* C19: a failure in the middle of a publish leaves the destination        *)
(* partially updated: when the destination refuses batch k of a property,  *)
(* the items of batches 1..k-1 of that property and all items of the       *)
(* properties synced earlier in the run stay created, up to the end of the *)
(* invocation: what the run added to the destination is what its POSTs     *)
(* before the refused one carried, and nothing is taken back.              *)

C19_PartialPublish ==
    (/\ Len(log) > 0
     /\ log[Len(log)].type = "posted"
     /\ Failed(log[Len(log)]))
        => LET start == runs[Len(runs)].start
           IN  /\ Len(created) >= start
               /\ SubSeq(created, start + 1, Len(created)) = Posted(Len(log) - 2)
               /\ Len(created) - start >= i
               /\ SubSeq(created, Len(created) - i + 1, Len(created))
                    = [j \in 1..i |-> [collection |-> Get(properties[idx], "webflowCollectionId"),
                                       item |-> items[j]]]
               /\ \A q \in 1..(idx - 1) :
                    Cardinality({n \in (start + 1)..Len(created) :
                                    created[n].collection = Get(properties[q], "webflowCollectionId")})
                        = Len(UpstreamRecords(Get(properties[q], "entrataPropertyId")))
               /\ promise = "rejected"

\* the third batch of the second property was refused in the second run:
\* the two batches before it and the first property's item were created
C19_Witness ==
    /\ pc = "idle"
    /\ Len(runs) = 2
    /\ Len(log) > 0
    /\ log[Len(log)].type = "posted"
    /\ Failed(log[Len(log)])
    /\ idx = 2
    /\ i = 2 * batchSize
    /\ Len(created) - runs[Len(runs)].start = 1 + 2 * batchSize

----------------------------------------------------------------------------
(* C20: collection isolation: every POST issued while property P is synced *)
(* goes to P's collection and carries only items normalized from the       *)
(* records P's fetch returned, one per record and in their order, with P's *)
(* source property id in property-id.                                      *)

C20_CollectionIsolation ==
    (Len(log) > 0 /\ log[Len(log)].type = "post")
        => LET post == log[Len(log)]
               config == properties[post.prop]
           IN  /\ post.prop = idx
               /\ post.target = Get(config, "webflowCollectionId")
               /\ \A j \in 1..Len(post.items) :
                    /\ post.items[j].property_id = Get(config, "entrataPropertyId")
                    /\ post.items[j] = items[i + j]
               /\ Len(items) = Len(unitTypes.a)
               /\ \A j \in 1..Len(items) :
                    /\ items[j].property_id = Get(config, "entrataPropertyId")
                    /\ items[j].floorplan_id = Get(unitTypes.a[j], "UnitTypeId")
               /\ unitTypes = Get(Get(Get(data, "response"), "result"), "UnitTypes")
                    \/ unitTypes = Get(Get(data, "response"), "result")

\* the second property's POST went to the second collection, after the
\* first property's went to the first
C20_Witness ==
    /\ Len(log) > 0
    /\ log[Len(log)].type = "post"
    /\ log[Len(log)].prop = 2
    /\ log[Len(log)].target = JStr(<<"c", "2">>)
    /\ log[Len(log)].items[1].property_id = JStr(<<"p", "2">>)
    /\ \E n \in 1..Len(log) :
            /\ log[n].type = "post"
            /\ log[n].prop = 1
            /\ log[n].target = JStr(<<"c", "1">>)
            /\ log[n].items[1].property_id = JStr(<<"p", "1">>)

============================================================================
